---- MODULE Spec2Model ----
(***************************************************************************)
(* PlotDMG storyboard.py: the graph-construction engine.                   *)
(*                                                                         *)
(* A Storyboard is built by loading rows (create_timeline, create_event,   *)
(* create_character, create_combiner), then finalize() adds the start and  *)
(* finish caps, sorts every line, emits the bridges and covers parallel    *)
(* Character bridges with Combiners; make_graph() draws the result.        *)
(*                                                                         *)
(* Objects are held by value.  An event object is named by its key in      *)
(* event_list, a line by its key in line_list, a Character by its creation *)
(* number (two Character objects may carry the same name), a Combiner by   *)
(* its member set (Combiner.__hash__/__eq__ are those of the member set).  *)
(* Names are stored as str.replace("-", "_") leaves them.                  *)
(*                                                                         *)
(* Every constructor is an operator from a story record to a story record. *)
(* A raised exception is the field err; the statements executed before the *)
(* raise keep their effect, the rest of the handler is skipped and the     *)
(* build is aborted (load_file re-raises).                                 *)
(***************************************************************************)
EXTENDS Integers, Sequences, FiniteSets, TLC

VARIABLES
    line_list,          \* Storyboard.line_list: key -> Timeline or Place
    event_list,         \* Storyboard.event_list: key -> Event or EventAnchor
    characters,         \* the Character objects, in creation order
    dramatis_personae,  \* Storyboard.dramatis_personae: name -> Character
    grouped_roster,     \* Storyboard.grouped_roster: the Combiners, by member set
    links2process,      \* Storyboard.links2process: (past, future) -> bridges, a dict
    bridges,            \* Storyboard.bridges
    is_final,           \* Storyboard.is_final
    graph,              \* Storyboard.graph: the edges drawn by make_graph
    l,                  \* load_file's row counter
    err,                \* the exception that aborted the build, or NoErr
    pc,                 \* position inside Storyboard.build_bridges (SpecCover)
    keys,               \* build_bridges: the position of the for loop in links2process
    key,                \* build_bridges: the key (past, future) being covered
    y,                  \* build_bridges: the worklist of Character bridges
    c_out               \* build_bridges: the Combiner selected for this round

vars == <<line_list, event_list, characters, dramatis_personae, grouped_roster,
          links2process, bridges, is_final, graph, l, err, pc, keys, key, y, c_out>>

coverVars == <<pc, keys, key, y, c_out>>

----------------------------------------------------------------------------
(* Bounds and input alphabets *)

MaxTime == 2        \* time codes state a time in 1..MaxTime
MaxLen == 3         \* longest itinerary of a CHARACTER row
MaxTrips == 2       \* SpecCover: a traveller goes e1 -> e2 at most MaxTrips times
MaxCombos == 2      \* SpecCover: COMBINER rows of the input
MaxCrowd == 7       \* SpecCrowd: travellers on one way

NoErr == ""
EmptyFn == [x \in {} |-> x]

\* TIMELINE rows of the input: NAME and the place codes, already split by
\* HasTimeOffset.separate_tz into a name and a signed offset.  A row without
\* places makes a single-place timeline.
TimelineRows ==
    { [name |-> "ta", places |-> <<[name |-> "p1", offset |-> 0],
                                   [name |-> "p2", offset |-> 1]>>],
      [name |-> "tb", places |-> <<>>] }

EventNames == <<"e1", "e2">>
Offsets == {0, 1}

\* an iteration order of a Python set: some enumeration of its elements
RECURSIVE SetToSeq(_)
SetToSeq(S) ==
    IF S = {} THEN <<>>
    ELSE LET x == CHOOSE x \in S : TRUE IN <<x>> \o SetToSeq(S \ {x})

Range(f) == {f[i] : i \in DOMAIN f}

----------------------------------------------------------------------------
(* The story as one record *)

Story ==
    [line_list |-> line_list, event_list |-> event_list, characters |-> characters,
     dramatis_personae |-> dramatis_personae, grouped_roster |-> grouped_roster,
     links2process |-> links2process, bridges |-> bridges, is_final |-> is_final,
     err |-> err]

EmptyStory ==
    [line_list |-> EmptyFn, event_list |-> EmptyFn, characters |-> <<>>,
     dramatis_personae |-> EmptyFn, grouped_roster |-> EmptyFn,
     links2process |-> <<>>, bridges |-> <<>>, is_final |-> FALSE,
     err |-> NoErr]

Commit(s) ==
    /\ line_list' = s.line_list
    /\ event_list' = s.event_list
    /\ characters' = s.characters
    /\ dramatis_personae' = s.dramatis_personae
    /\ grouped_roster' = s.grouped_roster
    /\ links2process' = s.links2process
    /\ bridges' = s.bridges
    /\ is_final' = s.is_final
    /\ err' = s.err

Fail(s, e) == [s EXCEPT !.err = e]
Ok(s) == s.err = NoErr

Timelines(s) == {k \in DOMAIN s.line_list : s.line_list[k].kind = "Timeline"}
Places(s) == {k \in DOMAIN s.line_list : s.line_list[k].kind = "Place"}

----------------------------------------------------------------------------
(* Time offsets *)

\* EventBase.total_offset
total_offset(s, e) == e.local_offset + s.line_list[e.line].local_offset

\* EventBase.counter (getter): the absolute time
counter(s, e) == e.local_counter - total_offset(s, e)

\* EventBase.counter (setter): the local_counter that gives absolute time abs_time
counter_setter(s, e, abs_time) == abs_time + total_offset(s, e)

\* HasTimeOffset.offset_string
offset_string(o) == IF o < 0 THEN ToString(o) ELSE "+" \o ToString(o)

\* str(counter).replace("-", "_"): the name of an automatic anchor
CounterName(c) == IF c < 0 THEN "_" \o ToString(-c) ELSE ToString(c)

\* name.replace("-", "_") of a line name: only "<name>-tl" holds a hyphen
LineEventName(n) ==
    IF \E r \in TimelineRows : n = r.name \o "-tl"
    THEN (CHOOSE r \in TimelineRows : n = r.name \o "-tl").name \o "_tl"
    ELSE n

\* the keyword arguments create_event passes on
KW(offset, absolute, vegan, dash, box_skip) ==
    [offset |-> offset, absolute |-> absolute, vegan |-> vegan, dash |-> dash,
     box_skip |-> box_skip, opener |-> FALSE, closer |-> FALSE]

NoKW == KW(0, FALSE, FALSE, FALSE, FALSE)

----------------------------------------------------------------------------
(* Sequences of events *)

\* EventSequence.add_event
EventSequence_add_event(e_lst, k, dash_b4, dash_next) ==
    Append(e_lst, [event |-> k, dash_from_previous |-> dash_b4, dash_to_next |-> dash_next])

\* a faulty variant of TimedEventSequence.add_event: the assertion of line 337
\* (no event at this time yet) is left out
add_event_any_time(s, e, k) ==
    IF k \in DOMAIN s.event_list
    THEN Fail(s, "DuplicateEvent")
    ELSE [s EXCEPT !.event_list = (k :> e) @@ @,
                   !.line_list[e.line].e_lst = EventSequence_add_event(@, k, TRUE, TRUE),
                   !.line_list[e.line].ts = (counter(s, e) :> k) @@ @]

\* TimedEventSequence.add_event: e is the event object, k its registry key
TimedEventSequence_add_event(s, e, k) ==
    LET c == counter(s, e) IN
    IF c \in DOMAIN s.line_list[e.line].ts
    THEN Fail(s, "TimestampCollision")
    ELSE IF k \in DOMAIN s.event_list
    THEN Fail(s, "DuplicateEvent")
    ELSE [s EXCEPT !.event_list = (k :> e) @@ @,
                   !.line_list[e.line].e_lst = EventSequence_add_event(@, k, TRUE, TRUE),
                   !.line_list[e.line].ts = (c :> k) @@ @]

\* EventBase.__init__
EventBase_init(s, kind, name, tl, cnt, kw, universal) ==
    LET e0 == [kind |-> kind, name |-> name, line |-> tl,
               local_offset |-> kw.offset, local_counter |-> 0,
               attendees |-> EmptyFn, entrances |-> {}, exits |-> {},
               opener |-> kw.opener, closer |-> kw.closer,
               universal_event |-> universal,
               skip_in_friendship_graph |-> kw.vegan, no_box |-> kw.box_skip,
               dash |-> FALSE, anchor |-> "", child_events |-> {}]
        e == [e0 EXCEPT !.local_counter =
                 IF kw.absolute THEN counter_setter(s, e0, cnt) ELSE cnt]
    IN TimedEventSequence_add_event(s, e, name)

\* EventAnchor.__init__ up to the fan-out (lines 577-581)
EventAnchor_base(s, name, tl, cnt, make_related, kw) ==
    EventBase_init(s, "EventAnchor", name, tl, cnt, kw, make_related)

\* Event.__init__, lines 698-704: the anchor a adopts the event; a cap is renamed
Event_adopt(s, name, tl, kw, a) ==
    IF ~Ok(s) THEN s
    ELSE [s EXCEPT !.event_list[name].dash = kw.dash,
                   !.event_list[name].anchor = a,
                   !.event_list[a].child_events = @ \cup {name},
                   !.event_list[name].name =
                       IF kw.opener \/ kw.closer
                       THEN s.line_list[tl].name \o "_"
                            \o (IF kw.opener THEN "start_" ELSE "")
                            \o (IF kw.closer THEN "finish_" ELSE "")
                            \o "(" \o offset_string(s.line_list[tl].local_offset) \o ")"
                       ELSE @]

\* Event.__init__, lines 687-697: the anchor of the timeline at the event's
\* time, or a new one named after the time, without vegan, offset and dash
Event_anchor(s, name, tl, kw) ==
    IF ~Ok(s) THEN s ELSE
    LET c == counter(s, s.event_list[name])
        t == s.line_list[tl].timeline
    IN  IF c \in DOMAIN s.line_list[t].ts
        THEN Event_adopt(s, name, tl, kw, s.line_list[t].ts[c])
        ELSE Event_adopt(EventAnchor_base(s, CounterName(c), t, c, FALSE,
                                          [kw EXCEPT !.vegan = FALSE, !.offset = 0,
                                                     !.dash = FALSE]),
                         name, tl, kw, CounterName(c))

\* Event.__init__
Event_init(s, name, tl, cnt, kw, universal) ==
    Event_anchor(EventBase_init(s, "Event", name, tl, cnt, kw, universal), name, tl, kw)

\* a faulty variant of the fan-out: absolute=True is not passed to the
\* children, which take the anchor's time as a local time
RECURSIVE FanOutLocal(_, _, _, _, _)
FanOutLocal(s, name, ps, c, kw) ==
    IF ps = <<>> \/ ~Ok(s) THEN s
    ELSE FanOutLocal(Event_init(s, name \o "_" \o s.line_list[Head(ps)].name, Head(ps), c,
                                kw, TRUE),
                     name, Tail(ps), c, kw)

\* the set comprehension of EventAnchor.__init__ (lines 583-594), place by place
RECURSIVE FanOut(_, _, _, _, _)
FanOut(s, name, ps, c, kw) ==
    IF ps = <<>> \/ ~Ok(s) THEN s
    ELSE FanOut(Event_init(s, name \o "_" \o s.line_list[Head(ps)].name, Head(ps), c,
                           [kw EXCEPT !.absolute = TRUE], TRUE),
                name, Tail(ps), c, kw)

\* EventAnchor.__init__, lines 582-594
EventAnchor_children(s, name, tl, make_related, kw) ==
    IF ~Ok(s) \/ ~make_related THEN s
    ELSE IF s.line_list[tl].places # {} /\ kw.absolute
    THEN Fail(s, "TypeError")    \* absolute given twice in the call of Event
    ELSE FanOut(s, name, SetToSeq(s.line_list[tl].places),
                counter(s, s.event_list[name]), kw)

\* EventAnchor.__init__
EventAnchor_init(s, name, tl, cnt, make_related, kw) ==
    EventAnchor_children(EventAnchor_base(s, name, tl, cnt, make_related, kw),
                         name, tl, make_related, kw)

----------------------------------------------------------------------------
(* Timelines and Places *)

\* TimedEventSequence.__init__ (the SHORTNAME column is empty: short_name = name)
TimedEventSequence_init(s, kind, name, offset, tl) ==
    IF name \in DOMAIN s.line_list
    THEN Fail(s, "DuplicateLine")
    ELSE [s EXCEPT !.line_list =
             (name :> [kind |-> kind, name |-> name, local_offset |-> offset,
                       timeline |-> tl, places |-> {}, e_lst |-> <<>>,
                       ts |-> EmptyFn, bridges |-> <<>>]) @@ @]

\* Timeline.__init__
Timeline_init(s, name) == TimedEventSequence_init(s, "Timeline", name, 0, name)

\* Place.__init__, line 431: the timeline takes the place
Place_join(s, tl, p) ==
    IF ~Ok(s) THEN s
    ELSE [s EXCEPT !.line_list[tl].places = @ \cup {p.name}]

\* Place.__init__: p is the place code split by separate_tz
Place_init(s, tl, p) ==
    Place_join(TimedEventSequence_init(s, "Place", p.name, p.offset, tl), tl, p)

RECURSIVE MakePlaces(_, _, _)
MakePlaces(s, tl, ps) ==
    IF ps = <<>> \/ ~Ok(s) THEN s
    ELSE MakePlaces(Place_init(s, tl, Head(ps)), tl, Tail(ps))

\* Storyboard.create_timeline, lines 1209-1213: the places of the new timeline
create_places(s, row, tname) ==
    IF ~Ok(s) THEN s
    ELSE IF row.places = <<>>
    THEN Place_init(s, tname, [name |-> row.name, offset |-> 0])
    ELSE MakePlaces(s, tname, row.places)

\* Storyboard.create_timeline
create_timeline(s, row) ==
    create_places(Timeline_init(s, IF row.places = <<>> THEN row.name \o "-tl" ELSE row.name),
                  row, IF row.places = <<>> THEN row.name \o "-tl" ELSE row.name)

\* Storyboard.create_event: stamp is the time code split into the stated
\* time, the signed offset of separate_tz and the trailing "~"
create_event(s, name, stamp, line, vegan, dash, box_skip) ==
    IF line \notin DOMAIN s.line_list
    THEN Fail(s, "UnknownLine")
    ELSE LET kw == KW(stamp.offset, stamp.absolute, vegan, dash, box_skip) IN
         IF s.line_list[line].kind = "Place"
         THEN Event_init(s, name, line, stamp.time, kw, FALSE)
         ELSE EventAnchor_init(s, name, line, stamp.time, TRUE, kw)

----------------------------------------------------------------------------
(* Bridges *)

LineOwner(s, k) == [kind |-> s.line_list[k].kind, key |-> k, id |-> 0, chars |-> {}]
CharOwner(id) == [kind |-> "Character", key |-> "", id |-> id, chars |-> {id}]
CombinerOwner(cs) == [kind |-> "Combiner", key |-> "", id |-> 0, chars |-> cs]

\* EventBridge.__init__
EventBridge(seq, index, past, future, dash) ==
    [seq |-> seq, index |-> index, past |-> past, future |-> future, dash |-> dash,
     child_bridges |-> <<>>]

\* links2process is a dict: the entries [past, future, links] in insertion order
L2PIndex(l2p, past, future) ==
    {i \in DOMAIN l2p : l2p[i].past = past /\ l2p[i].future = future}

\* EventBridge.add_to_story_queue
add_to_story_queue(l2p, b) ==
    LET at == L2PIndex(l2p, b.past, b.future) IN
    IF at = {}
    THEN Append(l2p, [past |-> b.past, future |-> b.future, links |-> <<b>>])
    ELSE LET i == CHOOSE i \in at : TRUE IN
         [l2p EXCEPT ![i].links = Append(@, b)]

\* EventConnector.add_links_to_story
RECURSIVE add_links_to_story(_, _)
add_links_to_story(l2p, bs) ==
    IF bs = <<>> THEN l2p
    ELSE add_links_to_story(add_to_story_queue(l2p, Head(bs)), Tail(bs))

\* a faulty variant of the loop of EventSequence.build_bridges: a bridge is
\* dashed only when both of its ends ask for it
BridgesDashedByBoth(seq, events) ==
    [i \in 1..(Len(events) - 1) |->
        EventBridge(seq, i, events[i].event, events[i + 1].event,
                    events[i].dash_to_next /\ events[i + 1].dash_from_previous)]

\* the loop of EventSequence.build_bridges (lines 235-241): the new bridges
NewBridges(seq, events) ==
    [i \in 1..(Len(events) - 1) |->
        EventBridge(seq, i, events[i].event, events[i + 1].event,
                    events[i].dash_to_next \/ events[i + 1].dash_from_previous)]

\* EventAnchor.skip_arrow
skip_arrow(s, a) == \A e \in s.event_list[a].child_events : s.event_list[e].no_box

\* sequence filter, keeping order
RECURSIVE SelectEntries(_, _, _)
SelectEntries(s, es, i) ==
    IF i > Len(es) THEN <<>>
    ELSE (IF skip_arrow(s, es[i].event) THEN <<>> ELSE <<es[i]>>)
         \o SelectEntries(s, es, i + 1)

\* Timeline.build_bridges: anchors whose children all skip the box are left
\* out, unless that leaves nothing; Place.build_bridges: the whole chain
BridgeEvents(s, k) ==
    IF s.line_list[k].kind = "Timeline" /\ SelectEntries(s, s.line_list[k].e_lst, 1) # <<>>
    THEN SelectEntries(s, s.line_list[k].e_lst, 1)
    ELSE s.line_list[k].e_lst

\* EventSequence.build_bridges, lines 242-243: the list is kept and queued
Line_keep_bridges(s, k, bs) ==
    [s EXCEPT !.line_list[k].bridges = bs,
              !.links2process = add_links_to_story(@, bs)]

\* Timeline.build_bridges and Place.build_bridges, through
\* EventSequence.build_bridges
Line_build_bridges(s, k) ==
    Line_keep_bridges(s, k, s.line_list[k].bridges
                            \o NewBridges(LineOwner(s, k), BridgeEvents(s, k)))

----------------------------------------------------------------------------
(* Caps and sorting *)

Counters(s, k) == {counter(s, s.event_list[en.event]) : en \in Range(s.line_list[k].e_lst)}
MinOf(S) == CHOOSE x \in S : \A z \in S : x <= z
MaxOf(S) == CHOOSE x \in S : \A z \in S : x >= z

\* Timeline.add_cap: the finish cap, after the start cap
add_cap_finish(s, k, name, empty) ==
    IF ~Ok(s) THEN s
    ELSE EventAnchor_init(s, name, k, IF empty THEN 1 ELSE MaxOf(Counters(s, k)) + 1,
                          TRUE, [NoKW EXCEPT !.closer = TRUE])

\* Timeline.add_cap
add_cap(s, k) ==
    IF Counters(s, k) = {}
    THEN add_cap_finish(
             EventAnchor_init(s, "empty_" \o LineEventName(s.line_list[k].name) \o "_start",
                              k, -1, TRUE, [NoKW EXCEPT !.opener = TRUE]),
             k, "empty_" \o LineEventName(s.line_list[k].name) \o "_finish", TRUE)
    ELSE add_cap_finish(
             EventAnchor_init(s, LineEventName(s.line_list[k].name) \o " start",
                              k, MinOf(Counters(s, k)) - 1, TRUE,
                              [NoKW EXCEPT !.opener = TRUE]),
             k, LineEventName(s.line_list[k].name) \o " finish", FALSE)

\* list.sort(key=time_key): a stable sort, here by insertion
RECURSIVE InsertByTime(_, _, _)
InsertByTime(s, sorted, en) ==
    IF sorted = <<>> THEN <<en>>
    ELSE IF counter(s, s.event_list[Head(sorted).event]) <= counter(s, s.event_list[en.event])
    THEN <<Head(sorted)>> \o InsertByTime(s, Tail(sorted), en)
    ELSE <<en>> \o sorted

RECURSIVE SortByTime(_, _, _)
SortByTime(s, es, acc) ==
    IF es = <<>> THEN acc
    ELSE SortByTime(s, Tail(es), InsertByTime(s, acc, Head(es)))

\* a faulty variant of sort_events: the chain is left in insertion order
keep_order(s, k) == s

\* TimedEventSequence.sort_events
sort_events(s, k) == [s EXCEPT !.line_list[k].e_lst = SortByTime(s, @, <<>>)]

RECURSIVE AddCaps(_, _)
AddCaps(s, ks) ==
    IF ks = <<>> \/ ~Ok(s) THEN s
    ELSE AddCaps(add_cap(s, Head(ks)), Tail(ks))

RECURSIVE SortAndBridgeLines(_, _)
SortAndBridgeLines(s, ks) ==
    IF ks = <<>> THEN s
    ELSE SortAndBridgeLines(Line_build_bridges(sort_events(s, Head(ks)), Head(ks)), Tail(ks))

----------------------------------------------------------------------------
(* Characters and Combiners *)

\* a faulty variant of Combiner.__init__: the keyword argument num is left out
Combiner_unranked(s, name, cs, num) ==
    IF cs \in DOMAIN s.grouped_roster
    THEN Fail(s, "DuplicateCombiner")
    ELSE [s EXCEPT !.grouped_roster =
             (cs :> [name |-> name, priority |-> 0, bridges |-> <<>>]) @@ @]

\* a faulty variant of Combiner.__init__: the new Combiner takes the place of
\* the registered one
Combiner_replace(s, name, cs, num) ==
    [s EXCEPT !.grouped_roster =
         (cs :> [name |-> name, priority |-> num, bridges |-> <<>>]) @@ @]

\* Combiner.__init__: cs is the member set, num the keyword argument num
Combiner_init(s, name, cs, num) ==
    IF cs \in DOMAIN s.grouped_roster
    THEN Fail(s, "DuplicateCombiner")
    ELSE [s EXCEPT !.grouped_roster =
             (cs :> [name |-> name, priority |-> num, bridges |-> <<>>]) @@ @]

\* Event.can_attend, EventAnchor.can_attend
can_attend(e) == e.kind = "Event" /\ ~(e.opener \/ e.closer)

\* Counter[c] += 1
Incr(cnt, c) == IF c \in DOMAIN cnt THEN [cnt EXCEPT ![c] = @ + 1] ELSE (c :> 1) @@ cnt

\* Counter[c]
Count(cnt, c) == IF c \in DOMAIN cnt THEN cnt[c] ELSE 0

\* Event.add_character: the event and its anchor both count the visit; an
\* Event whose constructor raised before line 691 has no attribute anchor
Event_add_character(s, k, c) ==
    LET a == s.event_list[k].anchor IN
    IF a \notin DOMAIN s.event_list
    THEN Fail([s EXCEPT !.event_list[k].attendees = Incr(@, c)], "AttributeError")
    ELSE [s EXCEPT !.event_list[k].attendees = Incr(@, c),
                   !.event_list[a].attendees = Incr(@, c)]

\* Character.add_event: tok is a token of the row, its dash markers split off
Character_add_event(s, c, tok) ==
    IF tok.event \notin DOMAIN s.event_list
    THEN Fail(s, "KeyError")
    ELSE IF ~can_attend(s.event_list[tok.event])
    THEN Fail(s, "CannotAttend")
    ELSE Event_add_character(
             [s EXCEPT !.characters[c].e_lst =
                  EventSequence_add_event(@, tok.event, tok.dash_previous, tok.dash_next)],
             tok.event, c)

RECURSIVE AddItinerary(_, _, _)
AddItinerary(s, c, toks) ==
    IF toks = <<>> \/ ~Ok(s) THEN s
    ELSE AddItinerary(Character_add_event(s, c, Head(toks)), c, Tail(toks))

\* Character.__init__, lines 875-878: the first and the last event
Character_ends(s, c) ==
    IF ~Ok(s) \/ s.characters[c].e_lst = <<>> THEN s
    ELSE LET first == s.characters[c].e_lst[1].event
             last == s.characters[c].e_lst[Len(s.characters[c].e_lst)].event
         IN [s EXCEPT !.event_list[first].entrances = @ \cup {c},
                      !.event_list[s.event_list[first].anchor].entrances = @ \cup {c},
                      !.event_list[last].exits = @ \cup {c},
                      !.event_list[s.event_list[last].anchor].exits = @ \cup {c}]

\* Character.__init__, lines 863-878
Character_events(s, c, toks) ==
    IF ~Ok(s) THEN s ELSE Character_ends(AddItinerary(s, c, toks), c)

\* Character.__init__, lines 849-856: the new Character takes its name
Character_register(s, raw) ==
    [s EXCEPT !.characters =
                  Append(@, [name |-> raw.name, skip_in_friendship_graph |-> raw.starred,
                             e_lst |-> <<>>, bridges |-> <<>>]),
              !.dramatis_personae = (raw.name :> (Len(s.characters) + 1)) @@ @]

\* a faulty variant of Character.__init__: no Combiner of the Character alone
Character_alone(s, raw, toks) ==
    IF (IF raw.starred THEN raw.name \o "*" ELSE raw.name) \in DOMAIN s.dramatis_personae
    THEN Fail(s, "DuplicateCharacter")
    ELSE Character_events(Character_register(s, raw), Len(s.characters) + 1, toks)

\* Character.__init__: raw is the NAME cell, starred when it ends in "*"
Character_init(s, raw, toks) ==
    IF (IF raw.starred THEN raw.name \o "*" ELSE raw.name) \in DOMAIN s.dramatis_personae
    THEN Fail(s, "DuplicateCharacter")
    ELSE Character_events(Combiner_init(Character_register(s, raw), raw.name,
                                        {Len(s.characters) + 1}, 0),
                          Len(s.characters) + 1, toks)

\* Storyboard.create_character
create_character(s, raw, toks) == Character_init(s, raw, toks)

\* Storyboard.create_combiner: names is the list of member names of the row
create_combiner(s, name, names, num) ==
    IF ~(Len(names) > 1)
    THEN Fail(s, "TooFewCharacters")
    ELSE IF \E i \in DOMAIN names : names[i] \notin DOMAIN s.dramatis_personae
    THEN Fail(s, "KeyError")
    ELSE Combiner_init(s, name, {s.dramatis_personae[names[i]] : i \in DOMAIN names}, num)

\* Storyboard.roster
roster(s) == Range(s.dramatis_personae)

\* EventSequence.build_bridges, lines 242-243, for a Character
Character_keep_bridges(s, c, bs) ==
    [s EXCEPT !.characters[c].bridges = bs,
              !.links2process = add_links_to_story(@, bs)]

\* EventSequence.build_bridges for a Character
Character_build_bridges(s, c) ==
    Character_keep_bridges(s, c, s.characters[c].bridges
                                 \o NewBridges(CharOwner(c), s.characters[c].e_lst))

RECURSIVE BridgeCharacters(_, _)
BridgeCharacters(s, cs) ==
    IF cs = <<>> THEN s
    ELSE BridgeCharacters(Character_build_bridges(s, Head(cs)), Tail(cs))

----------------------------------------------------------------------------
(* Covering *)

\* a faulty variant of size_key: the priority is left out of the key
size_only(gr, cs) == Cardinality(cs) * 1000

\* Combiner.size_key
size_key(gr, cs) == Cardinality(cs) * 1000 + gr[cs].priority

\* StoryElement.possible_groups, as the set the sorted list is made of
possible_groups(gr, chars2match) == {cs \in DOMAIN gr : cs \subseteq chars2match}

\* a faulty variant of longest_matching_combiner: the first of the sorted
\* list is returned, not the last
shortest_matching_combiner(gr, chars2match) ==
    {cs \in possible_groups(gr, chars2match) :
        \A d \in possible_groups(gr, chars2match) : size_key(gr, cs) <= size_key(gr, d)}

\* StoryElement.longest_matching_combiner: the last of the list sorted by
\* size_key.  sorted() is stable and grouped_roster is iterated in the order
\* of a set, so among the candidates of greatest key any one can be last.
\* The result is the set of Combiners the call can return; {} stands for None.
longest_matching_combiner(gr, chars2match) ==
    {cs \in possible_groups(gr, chars2match) :
        \A d \in possible_groups(gr, chars2match) : size_key(gr, d) <= size_key(gr, cs)}

\* the owners of a worklist: b.seq for b in y
Owners(ws) == {ws[i].seq.id : i \in DOMAIN ws}

\* list.remove of the element at position i
RemoveAt(ws, i) == SubSeq(ws, 1, i - 1) \o SubSeq(ws, i + 1, Len(ws))

\* a faulty variant of lines 1126-1129: every bridge of the member leaves y,
\* the first alone becomes a child
RECURSIVE TakeAllOfMember(_, _, _)
TakeAllOfMember(ws, members, children) ==
    IF members = <<>> THEN [y |-> ws, child_bridges |-> children]
    ELSE LET i == MinOf({j \in DOMAIN ws : ws[j].seq = CharOwner(Head(members))}) IN
         TakeAllOfMember(SelectSeq(ws, LAMBDA b : b.seq # CharOwner(Head(members))),
                         Tail(members), Append(children, ws[i]))

\* a faulty variant of lines 1126-1129: the last bridge of each member is taken
RECURSIVE TakeLast(_, _, _)
TakeLast(ws, members, children) ==
    IF members = <<>> THEN [y |-> ws, child_bridges |-> children]
    ELSE LET i == MaxOf({j \in DOMAIN ws : ws[j].seq = CharOwner(Head(members))}) IN
         TakeLast(RemoveAt(ws, i), Tail(members), Append(children, ws[i]))

\* lines 1126-1129: for each member, its first bridge of y moves to the children
RECURSIVE TakeChildren(_, _, _)
TakeChildren(ws, members, children) ==
    IF members = <<>> THEN [y |-> ws, child_bridges |-> children]
    ELSE LET i == MinOf({j \in DOMAIN ws : ws[j].seq = CharOwner(Head(members))}) IN
         TakeChildren(RemoveAt(ws, i), Tail(members), Append(children, ws[i]))

\* lines 1125 and 1130: the bridge of the Combiner cs over the children taken
NewCover(gr, t, cs, past, future) ==
    [y |-> t.y,
     grouped_roster |->
         [gr EXCEPT ![cs].bridges =
             Append(@, [EventBridge(CombinerOwner(cs), 0, past, future, FALSE)
                           EXCEPT !.child_bridges = t.child_bridges])]]

\* lines 1125-1130: one round of the while loop with the Combiner cs selected
CoverRound(gr, ws, cs, past, future) ==
    NewCover(gr, TakeChildren(ws, SetToSeq(cs), <<>>), cs, past, future)

RECURSIVE CoverKey(_, _, _, _)

\* the rounds after one that left r
CoverRest(s, r, past, future) ==
    CoverKey([s EXCEPT !.grouped_roster = r.grouped_roster], r.y, past, future)

\* the while loop (lines 1123-1130): every story it can end with.  A None
\* returned by longest_matching_combiner raises at c_out.chars.
CoverKey(s, ws, past, future) ==
    IF ws = <<>> THEN {s}
    ELSE IF longest_matching_combiner(s.grouped_roster, Owners(ws)) = {}
    THEN {Fail(s, "AttributeError")}
    ELSE UNION { CoverRest(s, CoverRound(s.grouped_roster, ws, cs, past, future), past, future) :
                 cs \in longest_matching_combiner(s.grouped_roster, Owners(ws)) }

\* lines 1117-1122: the Character bridges of an entry, and the others
RECURSIVE SelectLinks(_, _)
SelectLinks(links, isChar) ==
    IF links = <<>> THEN <<>>
    ELSE (IF (Head(links).seq.kind = "Character") = isChar THEN <<Head(links)>> ELSE <<>>)
         \o SelectLinks(Tail(links), isChar)

\* the for loop over links2process (lines 1116-1130) from entry i on
RECURSIVE CoverAll(_, _)
CoverAll(s, i) ==
    IF i > Len(s.links2process) \/ ~Ok(s) THEN {s}
    ELSE LET en == s.links2process[i]
             s1 == [s EXCEPT !.bridges = @ \o SelectLinks(en.links, FALSE)]
         IN UNION { CoverAll(s2, i + 1) :
                    s2 \in CoverKey(s1, SelectLinks(en.links, TRUE), en.past, en.future) }

\* EventBridge.child_bridge_by_char[c].index: the last child owned by c
ChildIndex(b, c) ==
    b.child_bridges[MaxOf({j \in DOMAIN b.child_bridges : b.child_bridges[j].seq = CharOwner(c)})].index

\* the members sorted(self.chars, key=len(c.events))[-1] can return
IndexChars(s, cs) ==
    {c \in cs : \A d \in cs : Len(s.characters[d].e_lst) <= Len(s.characters[c].e_lst)}

\* a faulty variant of Combiner.build_bridges: the bridges are numbered in the
\* order of the list
index_by_place(bs, cs, index_char) ==
    IF Cardinality(cs) = 1
    THEN [i \in DOMAIN bs |-> [bs[i] EXCEPT !.index = bs[i].child_bridges[1].index]]
    ELSE [i \in DOMAIN bs |-> [bs[i] EXCEPT !.index = i]]

\* Combiner.build_bridges with index_char chosen: the bridges keep their
\* places in the list and get the rank of their child of index_char
Combiner_build_bridges(bs, cs, index_char) ==
    IF Cardinality(cs) = 1
    THEN [i \in DOMAIN bs |-> [bs[i] EXCEPT !.index = bs[i].child_bridges[1].index]]
    ELSE [i \in DOMAIN bs |->
             [bs[i] EXCEPT !.index =
                 1 + Cardinality({j \in DOMAIN bs :
                        \/ ChildIndex(bs[j], index_char) < ChildIndex(bs[i], index_char)
                        \/ /\ ChildIndex(bs[j], index_char) = ChildIndex(bs[i], index_char)
                           /\ j < i})]]

\* lines 1132-1133: the indexed bridges of the Combiner cs join Storyboard.bridges
IndexOne(s, cs, bs) ==
    [s EXCEPT !.grouped_roster[cs].bridges = bs, !.bridges = @ \o bs]

\* lines 1131-1133 from the Combiners cbs on
RECURSIVE IndexAll(_, _)
IndexAll(s, cbs) ==
    IF cbs = <<>> THEN {s}
    ELSE UNION { IndexAll(IndexOne(s, Head(cbs),
                                   Combiner_build_bridges(s.grouped_roster[Head(cbs)].bridges,
                                                          Head(cbs), ic)),
                          Tail(cbs)) :
                 ic \in IndexChars(s, Head(cbs)) }

\* Storyboard.build_bridges: every story it can end with
Storyboard_build_bridges(s) ==
    UNION { IF Ok(s1) THEN IndexAll(s1, SetToSeq(DOMAIN s1.grouped_roster)) ELSE {s1} :
            s1 \in CoverAll(s, 1) }

----------------------------------------------------------------------------
(* finalize and make_graph *)

\* Storyboard.finalize, lines 1106-1110: sort, line bridges, Character bridges
finalize_bridges(s) ==
    IF ~Ok(s) THEN s
    ELSE BridgeCharacters(SortAndBridgeLines(s, SetToSeq(DOMAIN s.line_list)),
                          SetToSeq(roster(s)))

\* Storyboard.finalize up to the Character bridges (lines 1104-1110)
finalize_lines(s) == finalize_bridges(AddCaps(s, SetToSeq(Timelines(s))))

\* Storyboard.finalize, lines 1111-1112: the covering, and the story is final
finalize_cover(s) ==
    IF ~Ok(s) THEN {s}
    ELSE {IF Ok(s2) THEN [s2 EXCEPT !.is_final = TRUE] ELSE s2 :
          s2 \in Storyboard_build_bridges(s)}

\* a faulty variant of finalize: the test of is_final (line 1102) is left out
finalize_again(s) == finalize_cover(finalize_lines(s))

\* Storyboard.finalize: every story the call can end with
finalize(s) ==
    IF s.is_final THEN {s} ELSE finalize_cover(finalize_lines(s))

\* EventAnchor.dash
anchor_dash(s, a) == \A e \in s.event_list[a].child_events : s.event_list[e].dash

\* EventBridge.dash_link
dash_link(b) ==
    IF b.child_bridges = <<>> THEN b.dash
    ELSE \E i \in DOMAIN b.child_bridges : b.child_bridges[i].dash

\* EventBridge.draw_line, line 791: a Timeline bridge takes the dash of its anchors
Redash(s, b) ==
    IF b.seq.kind = "Timeline"
    THEN [b EXCEPT !.dash = anchor_dash(s, b.past) \/ anchor_dash(s, b.future)]
    ELSE b

RedashAll(s, bs) == [i \in DOMAIN bs |-> Redash(s, bs[i])]

\* round(n / d) of Python 3: to the nearest integer, a tie to the even one
round(n, d) ==
    IF 2 * (n % d) < d THEN n \div d
    ELSE IF 2 * (n % d) > d THEN (n \div d) + 1
    ELSE (n \div d) + ((n \div d) % 2)

\* a faulty variant of EventBridge.weight: a dashed bridge weighs as much as
\* an undashed one
weight_undashed(b) ==
    IF b.seq.kind = "Timeline" THEN 123
    ELSE IF b.seq.kind = "Place" THEN 69
    ELSE 10 * Len(b.child_bridges) + 7

\* EventBridge.weight
weight(b) ==
    IF b.seq.kind = "Timeline" THEN 123
    ELSE IF b.seq.kind = "Place" THEN 69
    ELSE IF dash_link(b) THEN round(10 * Len(b.child_bridges) + 7, 9)
    ELSE 10 * Len(b.child_bridges) + 7

\* the edge EventBridge.draw_line adds to the graph
Edge(s, b) ==
    [past |-> s.event_list[b.past].name, future |-> s.event_list[b.future].name,
     seq |-> b.seq, index |-> b.index, dashed |-> dash_link(Redash(s, b)),
     weight |-> weight(Redash(s, b))]

\* Storyboard.make_graph after its call of finalize: the bridge objects are
\* shared by the lists that hold them
draw_lines(s) ==
    [s EXCEPT !.bridges = RedashAll(s, s.bridges),
              !.line_list = [k \in DOMAIN s.line_list |->
                  [s.line_list[k] EXCEPT !.bridges = RedashAll(s, s.line_list[k].bridges)]],
              !.links2process = [i \in DOMAIN s.links2process |->
                  [s.links2process[i] EXCEPT !.links = RedashAll(s, s.links2process[i].links)]]]

----------------------------------------------------------------------------
(* Rosters and meetings *)

\* EventSequence.events of a Character
events(s, c) == [i \in DOMAIN s.characters[c].e_lst |-> s.characters[c].e_lst[i].event]

\* a faulty variant of has_loop: only a stay (the same event twice in a row) counts
has_stay(s, c) ==
    \E i \in DOMAIN events(s, c) : i > 1 /\ events(s, c)[i - 1] = events(s, c)[i]

\* EventSequence.has_loop
has_loop(s, c) == Len(events(s, c)) # Cardinality(Range(events(s, c)))

\* EventSequence.roster over EventBase.roster: everyone who attends an event of c
EventSequence_roster(s, c) ==
    UNION {DOMAIN s.event_list[e].attendees : e \in Range(events(s, c))}

\* Character.roster
Character_roster(s, c) ==
    EventSequence_roster(s, c) \ (IF has_loop(s, c) THEN {} ELSE {c})

\* Character.shared_events
shared_events(s, a, c) ==
    {e \in Range(events(s, a)) :
        Count(s.event_list[e].attendees, c) > (IF c = a THEN 1 ELSE 0)}

\* sum of the values of a function
RECURSIVE SumOf(_)
SumOf(f) ==
    IF DOMAIN f = {} THEN 0
    ELSE LET x == CHOOSE x \in DOMAIN f : TRUE IN
         f[x] + SumOf([z \in DOMAIN f \ {x} |-> f[z]])

\* a faulty variant of the list of count_meetings: the visit of the Character
\* itself is not taken off
attendance_list(s, a, c) ==
    [e \in Range(events(s, a)) |-> Count(s.event_list[e].attendees, c)]

\* Character.count_meetings, line 964-966: the list over set(self.events)
meeting_list(s, a, c) ==
    [e \in Range(events(s, a)) |->
        Count(s.event_list[e].attendees, c) - (IF c = a THEN 1 ELSE 0)]

\* Character.count_meetings
count_meetings(s, a, c) ==
    <<SumOf(meeting_list(s, a, c)),
      Cardinality({e \in DOMAIN meeting_list(s, a, c) : meeting_list(s, a, c)[e] > 0})>>

----------------------------------------------------------------------------
(* Inputs of the rows *)

Stamps == [time : 1..MaxTime, offset : Offsets, absolute : BOOLEAN]
Vegans == {FALSE}
Dashes == {FALSE}
BoxSkips == BOOLEAN

\* the next unused name of a list, and the names already used
Fresh(names, used) ==
    {names[i] : i \in {j \in DOMAIN names : j <= Cardinality(used \cap Range(names)) + 1}}

CharNames == <<"bob", "carol">>
Stars == BOOLEAN

\* the tokens of a CHARACTER row: events, and the automatic anchor "1"
Tokens(refs) == [event : refs, dash_previous : Dashes, dash_next : Dashes]
Itineraries(refs) == UNION {[1..n -> Tokens(refs)] : n \in 0..MaxLen}

\* the member lists of a COMBINER row
MemberLists == UNION {[1..n -> Range(CharNames)] : n \in 1..2}

----------------------------------------------------------------------------
(* The load: one row of load_file per step *)

Loading == err = NoErr /\ ~is_final /\ graph = <<>> /\ pc = "load"

LoadTimeline ==
    /\ Loading
    /\ \E row \in TimelineRows : Commit(create_timeline(Story, row))
    /\ l' = l + 1
    /\ UNCHANGED <<graph, coverVars>>

LoadEvent ==
    /\ Loading
    /\ \E name \in Fresh(EventNames, DOMAIN event_list), stamp \in Stamps,
          line \in DOMAIN line_list \cup {"nowhere"},
          vegan \in Vegans, dash \in Dashes, box_skip \in BoxSkips :
          Commit(create_event(Story, name, stamp, line, vegan, dash, box_skip))
    /\ l' = l + 1
    /\ UNCHANGED <<graph, coverVars>>

LoadCharacter ==
    /\ Loading
    /\ Len(characters) < Len(CharNames)
    /\ \E name \in Fresh(CharNames, DOMAIN dramatis_personae),
          starred \in Stars,
          toks \in Itineraries({k \in DOMAIN event_list : can_attend(event_list[k])} \cup {"1"}) :
          Commit(create_character(Story, [name |-> name, starred |-> starred], toks))
    /\ l' = l + 1
    /\ UNCHANGED <<graph, coverVars>>

LoadCombiner ==
    /\ Loading
    /\ \E names \in MemberLists : Commit(create_combiner(Story, "group", names, l + 1))
    /\ l' = l + 1
    /\ UNCHANGED <<graph, coverVars>>

\* a call of Storyboard.finalize
Finalize ==
    /\ err = NoErr /\ pc = "load"
    /\ \E s \in finalize(Story) : Commit(s)
    /\ UNCHANGED <<graph, l, coverVars>>

\* a call of Storyboard.make_graph (the graph is drawn once)
MakeGraph ==
    /\ err = NoErr /\ pc = "load" /\ graph = <<>>
    /\ \E s \in finalize(Story) :
          IF Ok(s)
          THEN /\ Commit(draw_lines(s))
               /\ graph' = [i \in DOMAIN s.bridges |-> Edge(s, s.bridges[i])]
          ELSE /\ Commit(s)
               /\ graph' = graph
    /\ UNCHANGED <<l, coverVars>>

InitStory(s, rows) ==
    /\ line_list = s.line_list
    /\ event_list = s.event_list
    /\ characters = s.characters
    /\ dramatis_personae = s.dramatis_personae
    /\ grouped_roster = s.grouped_roster
    /\ links2process = s.links2process
    /\ bridges = s.bridges
    /\ is_final = s.is_final
    /\ err = s.err
    /\ graph = <<>>
    /\ l = rows

IdleCover == pc = "load" /\ keys = 0 /\ key = <<>> /\ y = <<>> /\ c_out = {}

\* Storyboard.__init__ without a file
Init == InitStory(EmptyStory, 0) /\ IdleCover

Next == LoadTimeline \/ LoadEvent \/ LoadCharacter \/ LoadCombiner \/ Finalize \/ MakeGraph

Spec == Init /\ [][Next]_vars

\* the timelines, places and events of a story
NextLines == LoadTimeline \/ LoadEvent \/ Finalize \/ MakeGraph

SpecLines == Init /\ [][NextLines]_vars

----------------------------------------------------------------------------
(* The cast of a story whose timelines and events are loaded *)

Stamp(time, offset, absolute) == [time |-> time, offset |-> offset, absolute |-> absolute]

\* the story after the rows  TIMELINE ta p1 p2+1 / EVENT e1 1 p1 / EVENT e2 2~ p2,
\* the fourth argument of the row of e1 (box_skip) given or not
Prologue(box_skip) ==
    create_event(
        create_event(
            create_timeline(EmptyStory, [name |-> "ta",
                                         places |-> <<[name |-> "p1", offset |-> 0],
                                                      [name |-> "p2", offset |-> 1]>>]),
            "e1", Stamp(1, 0, FALSE), "p1", FALSE, FALSE, box_skip),
        "e2", Stamp(2, 0, TRUE), "p2", FALSE, FALSE, FALSE)

InitCast == (\E box_skip \in BoxSkips : InitStory(Prologue(box_skip), 3)) /\ IdleCover

NextCast == LoadCharacter \/ LoadCombiner \/ Finalize \/ MakeGraph

SpecCast == InitCast /\ [][NextCast]_vars

----------------------------------------------------------------------------
(* Storyboard.build_bridges statement by statement, on the stories of a     *)
(* cast of three whose members go from e1 to e2 and back                    *)

CoverCast == <<"ann", "bob", "cy">>

\* the rows load_file can number the COMBINER rows with: the cast fills rows
\* 4 to 6, COMMENT rows are counted too
RowNums == {7, 1007, 1008}

Tok(e) == [event |-> e, dash_previous |-> FALSE, dash_next |-> FALSE]

\* the itinerary e1 e2 e1 e2 ... of n trips from e1 to e2
Trip(n) == [i \in 1..(2 * n) |-> Tok(IF i % 2 = 1 THEN "e1" ELSE "e2")]

RECURSIVE LoadCast(_, _, _)
LoadCast(s, trips, i) ==
    IF i > Len(CoverCast) THEN s
    ELSE LoadCast(create_character(s, [name |-> CoverCast[i], starred |-> FALSE],
                                   Trip(trips[i])), trips, i + 1)

\* COMBINER rows in the order of their row numbers
RECURSIVE LoadCombos(_, _)
LoadCombos(s, combos) ==
    IF combos = {} THEN s
    ELSE LET c == CHOOSE c \in combos : \A d \in combos : c.num <= d.num
             ms == SetToSeq(c.members)
         IN LoadCombos(create_combiner(s, "group", [i \in DOMAIN ms |-> CoverCast[ms[i]]], c.num),
                       combos \ {c})

ComboRows == [members : {m \in SUBSET (1..Len(CoverCast)) : Cardinality(m) >= 2}, num : RowNums]

ComboChoices ==
    {cs \in SUBSET ComboRows :
        /\ Cardinality(cs) <= MaxCombos
        /\ \A c, d \in cs : c # d => c.members # d.members /\ c.num # d.num}

\* the story when finalize reaches its call of build_bridges (line 1111)
CoverStory(trips, combos) ==
    finalize_lines(LoadCombos(LoadCast(Prologue(FALSE), trips, 1), combos))

InitCover ==
    /\ \E trips \in [1..Len(CoverCast) -> 0..MaxTrips], combos \in ComboChoices :
          InitStory(CoverStory(trips, combos), 1008)
    /\ pc = "for" /\ keys = 1 /\ key = <<>> /\ y = <<>> /\ c_out = {}

\* lines 1116-1122: the next entry of links2process
CoverFor ==
    /\ pc = "for" /\ keys <= Len(links2process)
    /\ y' = SelectLinks(links2process[keys].links, TRUE)
    /\ bridges' = bridges \o SelectLinks(links2process[keys].links, FALSE)
    /\ key' = <<links2process[keys].past, links2process[keys].future>>
    /\ pc' = "while"
    /\ UNCHANGED <<line_list, event_list, characters, dramatis_personae, grouped_roster,
                   links2process, is_final, graph, l, err, keys, c_out>>

\* lines 1123-1124: the loop test and the selection
CoverSelect ==
    /\ pc = "while" /\ y # <<>> /\ err = NoErr
    /\ IF longest_matching_combiner(grouped_roster, Owners(y)) = {}
       THEN err' = "AttributeError" /\ UNCHANGED <<c_out, pc>>
       ELSE /\ c_out' \in longest_matching_combiner(grouped_roster, Owners(y))
            /\ pc' = "selected"
            /\ err' = err
    /\ UNCHANGED <<line_list, event_list, characters, dramatis_personae, grouped_roster,
                   links2process, bridges, is_final, graph, l, keys, key, y>>

\* lines 1125-1130: the bridge of the selected Combiner
CoverTake ==
    /\ pc = "selected"
    /\ \E r \in {CoverRound(grouped_roster, y, c_out, key[1], key[2])} :
          /\ y' = r.y
          /\ grouped_roster' = r.grouped_roster
    /\ pc' = "while"
    /\ UNCHANGED <<line_list, event_list, characters, dramatis_personae,
                   links2process, bridges, is_final, graph, l, err, keys, key, c_out>>

\* line 1123: the worklist is empty, the for loop goes on
CoverExit ==
    /\ pc = "while" /\ y = <<>>
    /\ keys' = keys + 1
    /\ pc' = "for"
    /\ UNCHANGED <<line_list, event_list, characters, dramatis_personae, grouped_roster,
                   links2process, bridges, is_final, graph, l, err, key, y, c_out>>

\* lines 1131-1133, and line 1112 of finalize
CoverIndex ==
    /\ pc = "for" /\ keys > Len(links2process)
    /\ \E s \in IndexAll(Story, SetToSeq(DOMAIN grouped_roster)) :
          Commit([s EXCEPT !.is_final = TRUE])
    /\ pc' = "done"
    /\ UNCHANGED <<graph, l, keys, key, y, c_out>>

NextCover == CoverFor \/ CoverSelect \/ CoverTake \/ CoverExit \/ CoverIndex

SpecCover == InitCover /\ [][NextCover]_vars

\* the statements of the two loops of build_bridges (lines 1116-1130)
CoverLoop == CoverFor \/ CoverSelect \/ CoverTake \/ CoverExit

\* the loops run on: no statement of theirs waits for anything
SpecCoverFair == SpecCover /\ WF_vars(CoverLoop)

----------------------------------------------------------------------------
(* The stories of a crowd: up to MaxCrowd travellers on the way from e1 to   *)
(* e2, with or without a Combiner of them all                                *)

CrowdNames == <<"ann", "bob", "cy", "dan", "eve", "fay", "gus", "hal", "ida">>

\* the itinerary of a traveller: e1 e2, or e1 e2 e1; the first one of the
\* crowd may dash its way out of e1 (the token e1-( )
Journey(back, dashed) ==
    <<[event |-> "e1", dash_previous |-> FALSE, dash_next |-> dashed], Tok("e2")>>
    \o (IF back THEN <<Tok("e1")>> ELSE <<>>)

RECURSIVE LoadCrowd(_, _, _, _, _)
LoadCrowd(s, i, n, back, dashed) ==
    IF i > n THEN s
    ELSE LoadCrowd(create_character(s, [name |-> CrowdNames[i], starred |-> FALSE],
                                    Journey(back, dashed /\ i = 1)),
                   i + 1, n, back, dashed)

\* the rows of the prologue, n CHARACTER rows, and a COMBINER row or none
CrowdStory(n, grouped, back, dashed) ==
    IF grouped
    THEN create_combiner(LoadCrowd(Prologue(FALSE), 1, n, back, dashed), "crowd",
                         SubSeq(CrowdNames, 1, n), 3 + n + 1)
    ELSE LoadCrowd(Prologue(FALSE), 1, n, back, dashed)

InitCrowd ==
    /\ \E n \in 1..MaxCrowd, grouped, back, dashed \in BOOLEAN :
          /\ grouped => n >= 2
          /\ InitStory(CrowdStory(n, grouped, back, dashed),
                       3 + n + (IF grouped THEN 1 ELSE 0))
    /\ IdleCover

NextCrowd == Finalize \/ MakeGraph

SpecCrowd == InitCrowd /\ [][NextCrowd]_vars

----------------------------------------------------------------------------
(* Properties of the event chains (SpecLines) *)

EntryTime(s, en) == counter(s, s.event_list[en.event])

\* the absolute time a time code states on a line
StatedTime(stamp, line) ==
    IF stamp.absolute THEN stamp.time
    ELSE stamp.time - (stamp.offset + line_list[line].local_offset)

FreshEventNames == Range(EventNames) \ DOMAIN event_list

\* C5: an EventAnchor built with make_related=True at absolute time T on a
\* Timeline with n Places has exactly n child Events, one in each Place, each
\* with counter T and registered at T in the ts of its Place, whatever the
\* offsets of the Places and of the event.
FanOutComplete ==
    err = NoErr =>
        \A a \in DOMAIN event_list :
            (event_list[a].kind = "EventAnchor" /\ event_list[a].universal_event) =>
                LET ps == line_list[event_list[a].line].places
                    T == counter(Story, event_list[a])
                IN  /\ Cardinality(event_list[a].child_events) = Cardinality(ps)
                    /\ \A p \in ps :
                          \E k \in event_list[a].child_events :
                              /\ event_list[k].kind = "Event"
                              /\ event_list[k].line = p
                              /\ counter(Story, event_list[k]) = T
                              /\ T \in DOMAIN line_list[p].ts
                              /\ line_list[p].ts[T] = k

\* a declared timeline event with an offset of its own has fanned out over
\* two Places, one of them with an offset
FanOutDone ==
    /\ err = NoErr
    /\ \E a \in DOMAIN event_list :
          /\ event_list[a].kind = "EventAnchor" /\ event_list[a].universal_event
          /\ ~event_list[a].opener /\ ~event_list[a].closer
          /\ event_list[a].local_offset # 0
          /\ Cardinality(event_list[a].child_events) = 2
          /\ \E k \in event_list[a].child_events :
                line_list[event_list[k].line].local_offset # 0

\* C6: creating an Event with an unused name in a Place P at an absolute time
\* T at which P has no event succeeds in every state of the load; the Event
\* becomes a child of the Anchor its Timeline has at T, or of a new Anchor at
\* T with fan-out disabled whose only child it is; no other Place changes.
PlaceEventCreated ==
    Loading =>
        \A name \in FreshEventNames, stamp \in Stamps, p \in Places(Story) :
            LET T == StatedTime(stamp, p)
                t == line_list[p].timeline
                s2 == create_event(Story, name, stamp, p, FALSE, FALSE, FALSE)
            IN  T \notin DOMAIN line_list[p].ts =>
                  /\ Ok(s2)
                  /\ IF T \in DOMAIN line_list[t].ts
                     THEN /\ s2.event_list[name].anchor = line_list[t].ts[T]
                          /\ name \in s2.event_list[line_list[t].ts[T]].child_events
                          /\ DOMAIN s2.event_list = DOMAIN event_list \cup {name}
                     ELSE \E a \in DOMAIN s2.event_list \ (DOMAIN event_list \cup {name}) :
                          /\ DOMAIN s2.event_list = DOMAIN event_list \cup {name, a}
                          /\ s2.event_list[a].kind = "EventAnchor"
                          /\ s2.event_list[a].line = t
                          /\ counter(s2, s2.event_list[a]) = T
                          /\ ~s2.event_list[a].universal_event
                          /\ s2.event_list[a].child_events = {name}
                          /\ s2.event_list[name].anchor = a
                  /\ \A q \in Places(Story) \ {p} : s2.line_list[q] = line_list[q]

\* C7: a Place or Timeline holds at most one event at any absolute time, its
\* ts indexes exactly the events of its chain, and an add at a time already
\* taken is rejected leaving the chains, the ts and the registry as they were.
OneEventPerTime ==
    /\ \A k \in DOMAIN line_list :
          /\ \A i, j \in DOMAIN line_list[k].e_lst :
                i # j => EntryTime(Story, line_list[k].e_lst[i])
                         # EntryTime(Story, line_list[k].e_lst[j])
          /\ DOMAIN line_list[k].ts = Counters(Story, k)
          /\ \A i \in DOMAIN line_list[k].e_lst :
                line_list[k].ts[EntryTime(Story, line_list[k].e_lst[i])]
                    = line_list[k].e_lst[i].event
    /\ \A name \in Range(EventNames), stamp \in Stamps, k \in DOMAIN line_list,
          kind \in {"Event", "EventAnchor"} :
          LET s2 == EventBase_init(Story, kind, name, k, stamp.time,
                                   KW(stamp.offset, stamp.absolute, FALSE, FALSE, FALSE),
                                   FALSE)
          IN StatedTime(stamp, k) \in DOMAIN line_list[k].ts =>
                /\ s2.err = "TimestampCollision"
                /\ s2.line_list = line_list
                /\ s2.event_list = event_list

\* an add was rejected for its time on a line that holds events
AddRejected ==
    /\ err = "TimestampCollision"
    /\ \E k \in DOMAIN line_list : Len(line_list[k].e_lst) >= 2

\* C8: after finalize the chain of every Place and Timeline is in
\* non-decreasing order of absolute time, from its start cap to its finish cap.
ChainsSorted ==
    is_final =>
        \A k \in DOMAIN line_list :
            LET es == line_list[k].e_lst IN
            /\ Len(es) >= 2
            /\ event_list[es[1].event].opener
            /\ event_list[es[Len(es)].event].closer
            /\ \A i \in 1..(Len(es) - 1) : EntryTime(Story, es[i]) <= EntryTime(Story, es[i + 1])

\* a final story with a Place whose second declared event is the earlier one
SortedOutOfOrder ==
    /\ is_final
    /\ \E k \in Places(Story) :
          /\ Len(line_list[k].e_lst) = 4
          /\ line_list[k].e_lst[2].event = "e2"
          /\ line_list[k].e_lst[3].event = "e1"

\* C10: an event created by create_event on a Place or a Timeline has, when
\* not declared absolute, the absolute time stated - (event offset + line
\* offset); declared absolute its creation succeeds (wherever the same time
\* declared locally is accepted), its absolute time is the stated time and
\* its local time is stated + event offset + line offset.
StatedTimeKept ==
    Loading =>
        \A name \in FreshEventNames, stamp \in Stamps, k \in DOMAIN line_list :
            LET off == stamp.offset + line_list[k].local_offset
                s2 == create_event(Story, name, stamp, k, FALSE, FALSE, FALSE)
                local == create_event(Story, name,
                                      [stamp EXCEPT !.time = stamp.time + off,
                                                    !.absolute = FALSE],
                                      k, FALSE, FALSE, FALSE)
            IN  IF stamp.absolute
                THEN Ok(local) =>
                        /\ Ok(s2)
                        /\ counter(s2, s2.event_list[name]) = stamp.time
                        /\ s2.event_list[name].local_counter = stamp.time + off
                ELSE Ok(s2) => counter(s2, s2.event_list[name]) = stamp.time - off

----------------------------------------------------------------------------
(* Properties of the covering (SpecCover) *)

CombinerBridges == {n \in DOMAIN bridges : bridges[n].seq.kind = "Combiner"}

\* the places (bridge, child) where b is held as a child of a Combiner bridge
Parents(b) ==
    UNION {{<<n, m>> : m \in {m \in DOMAIN bridges[n].child_bridges :
                                bridges[n].child_bridges[m] = b}} :
           n \in CombinerBridges}

\* how many times the Character c goes from e1 to e2
Trips(c, e1, e2) ==
    Cardinality({i \in DOMAIN characters[c].bridges :
                    /\ characters[c].bridges[i].past = e1
                    /\ characters[c].bridges[i].future = e2})

\* C1: after finalize, under every key of links2process each queued
\* Character bridge is a child of exactly one Combiner bridge, which has the
\* origin and destination of the key, and the children of the Combiner
\* bridges are Character bridges queued under the key of their parent --
\* also when a Character goes over the same pair of events more than once.
CharBridgesCovered ==
    is_final =>
        /\ \A i \in DOMAIN links2process :
              \A j \in DOMAIN links2process[i].links :
                  LET b == links2process[i].links[j] IN
                  b.seq.kind = "Character" =>
                      /\ Cardinality(Parents(b)) = 1
                      /\ \A nm \in Parents(b) :
                            /\ bridges[nm[1]].past = links2process[i].past
                            /\ bridges[nm[1]].future = links2process[i].future
        /\ \A n \in CombinerBridges :
              \E i \in DOMAIN links2process :
                  /\ links2process[i].past = bridges[n].past
                  /\ links2process[i].future = bridges[n].future
                  /\ \A m \in DOMAIN bridges[n].child_bridges :
                        /\ bridges[n].child_bridges[m].seq.kind = "Character"
                        /\ \E j \in DOMAIN links2process[i].links :
                              links2process[i].links[j] = bridges[n].child_bridges[m]

\* a final story where a Character went twice over a pair of events that a
\* Combiner of several members bridges
CoveredTwice ==
    /\ is_final
    /\ \E c \in DOMAIN characters, n \in CombinerBridges :
          /\ Trips(c, bridges[n].past, bridges[n].future) >= 2
          /\ c \in bridges[n].seq.chars
          /\ Cardinality(bridges[n].seq.chars) >= 2

\* the bridges of Storyboard.bridges from e1 to e2 owned by seq
BridgesOf(seq, e1, e2) ==
    {n \in DOMAIN bridges :
        bridges[n].past = e1 /\ bridges[n].future = e2 /\ bridges[n].seq = seq}

\* the conclusion of C2 for the Characters b and c and the events e1, e2
OnePairBridge(b, c, e1, e2) ==
    /\ Cardinality(BridgesOf(CombinerOwner({b, c}), e1, e2)) = 1
    /\ \A n \in BridgesOf(CombinerOwner({b, c}), e1, e2) :
          /\ Len(bridges[n].child_bridges) = 2
          /\ {bridges[n].child_bridges[m].seq : m \in 1..2} = {CharOwner(b), CharOwner(c)}
    /\ BridgesOf(CharOwner(b), e1, e2) = {}
    /\ BridgesOf(CharOwner(c), e1, e2) = {}
    /\ BridgesOf(CombinerOwner({b}), e1, e2) = {}
    /\ BridgesOf(CombinerOwner({c}), e1, e2) = {}

\* two Characters with a declared Combiner of exactly the two, both going
\* from e1 to e2
PairTravels(b, c, e1, e2) ==
    /\ b # c
    /\ {b, c} \in DOMAIN grouped_roster
    /\ Trips(b, e1, e2) >= 1
    /\ Trips(c, e1, e2) >= 1

\* C2 as stated: when two Characters both have the transition e1 -> e2 and a
\* Combiner of exactly the two is declared, Storyboard.bridges holds exactly
\* one bridge e1 -> e2 owned by that Combiner, with the two Character bridges
\* as its children, and no Character bridge or singleton bridge of theirs.
PairBridgeAlways ==
    is_final =>
        \A b, c \in DOMAIN characters, e1, e2 \in DOMAIN event_list :
            PairTravels(b, c, e1, e2) => OnePairBridge(b, c, e1, e2)

\* another declared Combiner of several members, all going from e1 to e2,
\* that holds b or c
Rival(b, c, e1, e2) ==
    \E d \in DOMAIN grouped_roster :
        /\ Cardinality(d) >= 2 /\ d # {b, c} /\ d \cap {b, c} # {}
        /\ \A m \in d : Trips(m, e1, e2) >= 1

\* C2: the same, when each of the two goes from e1 to e2 exactly once and no
\* other declared Combiner of several members that all go from e1 to e2
\* holds one of the two.
PairBridge ==
    is_final =>
        \A b, c \in DOMAIN characters, e1, e2 \in DOMAIN event_list :
            (/\ PairTravels(b, c, e1, e2)
             /\ Trips(b, e1, e2) = 1 /\ Trips(c, e1, e2) = 1
             /\ ~Rival(b, c, e1, e2))
            => OnePairBridge(b, c, e1, e2)

\* a final story with such a pair, bridged, and a second declared Combiner
\* that holds one of the two
PairBridged ==
    /\ is_final
    /\ \E b, c \in DOMAIN characters, e1, e2 \in DOMAIN event_list :
          /\ PairTravels(b, c, e1, e2)
          /\ Trips(b, e1, e2) = 1 /\ Trips(c, e1, e2) = 1
          /\ ~Rival(b, c, e1, e2)
          /\ BridgesOf(CombinerOwner({b, c}), e1, e2) # {}
          /\ \E g \in DOMAIN grouped_roster :
                Cardinality(g) >= 2 /\ g # {b, c} /\ g \cap {b, c} # {}

\* C3: in every round the selected Combiner has the greatest member count
\* among the Combiners whose members all are owners of the worklist.
MostMembersSelected ==
    pc = "selected" =>
        \A d \in possible_groups(grouped_roster, Owners(y)) :
            Cardinality(d) <= Cardinality(c_out)

\* C4: among the declared Combiners (COMBINER rows) of one member count that
\* match the worklist the round selects the one declared last, of highest
\* priority, whatever the iteration order of grouped_roster.
LaterDeclaredWins ==
    /\ (pc = "selected" /\ Cardinality(c_out) >= 2) =>
          \A d \in possible_groups(grouped_roster, Owners(y)) \ {c_out} :
              Cardinality(d) = Cardinality(c_out) =>
                  grouped_roster[d].priority < grouped_roster[c_out].priority
    /\ (pc = "while" /\ y # <<>>) =>
          \A c, d \in longest_matching_combiner(grouped_roster, Owners(y)) :
              (Cardinality(c) = Cardinality(d) /\ Cardinality(c) >= 2) => c = d

\* a round selected one of two declared Combiners of two members that match
TieBroken ==
    /\ pc = "selected" /\ Cardinality(c_out) = 2
    /\ \E d \in possible_groups(grouped_roster, Owners(y)) \ {c_out} :
          Cardinality(d) = 2

----------------------------------------------------------------------------
(* Properties of finalize (SpecCast) *)

CapsOf(k, which) ==
    {i \in DOMAIN line_list[k].e_lst :
        IF which = "opener" THEN event_list[line_list[k].e_lst[i].event].opener
        ELSE event_list[line_list[k].e_lst[i].event].closer}

\* C9: once the story is final, a call of finalize -- direct or by
\* make_graph -- returns the story as it is: every line keeps its one start
\* cap and its one finish cap, and no bridge is held twice.
FinalizeOnce ==
    is_final =>
        /\ finalize(Story) = {Story}
        /\ \A k \in DOMAIN line_list :
              /\ Cardinality(CapsOf(k, "opener")) = 1
              /\ Cardinality(CapsOf(k, "closer")) = 1
        /\ \A i, j \in DOMAIN bridges : i # j => bridges[i] # bridges[j]
        /\ \A k \in DOMAIN line_list :
              Len(line_list[k].bridges) = Len(BridgeEvents(Story, k)) - 1
        /\ \A c \in roster(Story) :
              Len(characters[c].bridges) = Cardinality(DOMAIN characters[c].e_lst \ {1})

\* a final story with a cast and a Combiner bridge of two, drawn
FinalDrawn ==
    /\ is_final /\ graph # <<>>
    /\ \E n \in CombinerBridges : Cardinality(bridges[n].seq.chars) = 2

----------------------------------------------------------------------------
(* Properties of the cast (SpecCast) *)

\* some Event occurs at least twice in the itinerary of c
VisitsTwice(c) ==
    \E i, j \in DOMAIN characters[c].e_lst :
        i # j /\ characters[c].e_lst[i].event = characters[c].e_lst[j].event

\* C11: for every Character with a non-empty itinerary, has_loop is true
\* exactly when some Event occurs at least twice in the itinerary, the
\* Character is in its own roster exactly when has_loop is true, and the total
\* of count_meetings with itself is positive with a loop and 0 without.
LoopMeetsItself ==
    \A c \in DOMAIN characters :
        characters[c].e_lst # <<>> =>
            /\ has_loop(Story, c) <=> VisitsTwice(c)
            /\ c \in Character_roster(Story, c) <=> has_loop(Story, c)
            /\ has_loop(Story, c) => count_meetings(Story, c, c)[1] > 0
            /\ ~has_loop(Story, c) => count_meetings(Story, c, c)[1] = 0

\* a cast with a Character that comes back to an event after another one, and
\* a Character that never does
LoopAndLine ==
    /\ err = NoErr
    /\ \E c, d \in DOMAIN characters :
          /\ Len(characters[c].e_lst) = 3
          /\ characters[c].e_lst[1].event = characters[c].e_lst[3].event
          /\ characters[c].e_lst[1].event # characters[c].e_lst[2].event
          /\ characters[d].e_lst # <<>> /\ ~VisitsTwice(d)

\* the story r is a failed call that left the two registries of s alone
RegistriesKept(s, r) ==
    /\ ~Ok(r)
    /\ r.dramatis_personae = s.dramatis_personae
    /\ r.grouped_roster = s.grouped_roster

\* C12: a CHARACTER row whose name, its trailing "*" removed, is the name of a
\* registered Character fails and leaves dramatis_personae and grouped_roster
\* unchanged; no two Character objects have the same name, and every Character
\* that holds a singleton Combiner is in the roster of the story.
CharacterNamesUnique ==
    /\ Loading =>
          \A name \in DOMAIN dramatis_personae, starred \in Stars :
              RegistriesKept(Story,
                  create_character(Story, [name |-> name, starred |-> starred], <<>>))
    /\ \A c, d \in DOMAIN characters :
          c # d => characters[c].name # characters[d].name
    /\ \A c \in DOMAIN characters :
          {c} \in DOMAIN grouped_roster => c \in roster(Story)

\* the Characters a list of member names stands for
MemberSet(names) == {dramatis_personae[names[i]] : i \in DOMAIN names}

\* C13: a COMBINER row fails when it declares fewer than two members, or when
\* its set of members is that of a registered Combiner (the implicit singleton
\* of a Character listed twice included); grouped_roster is then unchanged,
\* so that one Combiner at most is registered for a set of members.
CombinerSetsUnique ==
    Loading =>
        \A names \in MemberLists \cup {<<>>} :
            \/ /\ Len(names) > 1
               /\ \/ \E i \in DOMAIN names : names[i] \notin DOMAIN dramatis_personae
                  \/ MemberSet(names) \notin DOMAIN grouped_roster
            \/ RegistriesKept(Story, create_combiner(Story, "group", names, l + 1))

\* a COMBINER row was rejected for its members, which a Combiner of two has
CombinerRejected ==
    /\ err = "DuplicateCombiner"
    /\ \E cs \in DOMAIN grouped_roster : Cardinality(cs) = 2

----------------------------------------------------------------------------
(* The number of bridges of a covering (SpecCover) *)

\* the single-Character bridges queued under entry i of links2process
CharLinks(i) == SelectLinks(links2process[i].links, TRUE)

\* how many of them the Character c owns
LinksOf(i, c) ==
    Cardinality({j \in DOMAIN CharLinks(i) : CharLinks(i)[j].seq = CharOwner(c)})

\* the Combiner-owned bridges produced for entry i
Produced(i) ==
    {n \in CombinerBridges : /\ bridges[n].past = links2process[i].past
                             /\ bridges[n].future = links2process[i].future}

\* the families of member sets of declared Combiners that the bridges of entry
\* i can be partitioned into: every owner is in a group, and has a bridge for
\* each group it is in
Partitions(i) ==
    {F \in SUBSET {cs \in DOMAIN grouped_roster : cs \subseteq Owners(CharLinks(i))} :
        /\ UNION F = Owners(CharLinks(i))
        /\ \A c \in Owners(CharLinks(i)) :
              Cardinality({cs \in F : c \in cs}) <= LinksOf(i, c)}

MinGroups(i) == MinOf({Cardinality(F) : F \in Partitions(i)})

\* C14 as stated: for every key the covering produces the least number of
\* Combiner-owned bridges that a partition of the single-Character bridges of
\* the key into groups owned by declared Combiners (singletons included) has.
FewestBridges ==
    is_final =>
        \A i \in DOMAIN links2process : Cardinality(Produced(i)) = MinGroups(i)

\* C14, amended: every Combiner-owned bridge of a key holds one bridge of each
\* member of its Combiner and no other, so that the bridges produced for the
\* key are at least as many as the bridges the busiest Character has under the
\* key, and at most as many as the single-Character bridges of the key.
OneBridgePerMember ==
    is_final =>
        \A i \in DOMAIN links2process :
            /\ \A n \in Produced(i) :
                  /\ Len(bridges[n].child_bridges) = Cardinality(bridges[n].seq.chars)
                  /\ Owners(bridges[n].child_bridges) = bridges[n].seq.chars
            /\ \A c \in Owners(CharLinks(i)) : LinksOf(i, c) <= Cardinality(Produced(i))
            /\ Cardinality(Produced(i)) <= Len(CharLinks(i))

\* a final story with more Combiner-owned bridges for a key than the least
\* partition has groups, a Combiner of several members among their owners
MoreThanFewest ==
    /\ is_final
    /\ \E i \in DOMAIN links2process :
          /\ Cardinality(Produced(i)) > MinGroups(i)
          /\ \E n \in Produced(i) : Cardinality(bridges[n].seq.chars) >= 2

----------------------------------------------------------------------------
(* Termination of the covering (SpecCoverFair) *)

\* the selection found a Combiner among the owners of the worklist
Selected ==
    /\ err # "AttributeError"
    /\ pc = "selected" => c_out \in DOMAIN grouped_roster /\ c_out \subseteq Owners(y)

\* C15: the while loop of build_bridges ends for every key, with an empty
\* worklist: longest_matching_combiner returns a Combiner in every round
\* (never None), every round takes at least one bridge from the worklist, and
\* the loop over the keys reaches its end.
CoveringTerminates ==
    /\ []Selected
    /\ [][CoverTake => Len(y') < Len(y)]_vars
    /\ [][CoverExit => y = <<>>]_vars
    /\ <>(pc = "for" /\ keys > Len(links2process))

\* the covering of a key ended after a round for a Character alone
CoveredAlone ==
    /\ pc = "while" /\ y = <<>> /\ key # <<>>
    /\ \E cs \in DOMAIN grouped_roster :
          /\ Cardinality(cs) = 1
          /\ grouped_roster[cs].bridges # <<>>
          /\ \E c \in DOMAIN characters : Trips(c, key[1], key[2]) >= 2

----------------------------------------------------------------------------
(* One round of the covering (SpecCover) *)

\* the positions of the worklist ws held by bridges of the Character c
PositionsOf(ws, c) == {j \in DOMAIN ws : ws[j].seq = CharOwner(c)}

\* the bridge a round has just made for the Combiner cs
NewBridge(gr, cs) == gr[cs].bridges[Len(gr[cs].bridges)]

\* the round r over the worklist took every bridge of the members of cs
TookAll(ws, cs, r) ==
    /\ \A c \in cs : PositionsOf(r.y, c) = {}
    /\ Range(NewBridge(r.grouped_roster, cs).child_bridges)
           = {ws[j] : j \in UNION {PositionsOf(ws, c) : c \in cs}}
    /\ Len(NewBridge(r.grouped_roster, cs).child_bridges)
           = Cardinality(UNION {PositionsOf(ws, c) : c \in cs})

\* C16 as stated: a round removes from the worklist every bridge owned by a
\* member of the selected Combiner, the children of the new bridge are those
\* removed bridges, and no bridge of a member is left in the worklist.
RoundTakesAll ==
    pc = "selected" => TookAll(y, c_out, CoverRound(grouped_roster, y, c_out, key[1], key[2]))

\* the worklist ws without the first bridge of each Character of cs
RECURSIVE WithoutFirsts(_, _)
WithoutFirsts(ws, cs) ==
    IF ws = <<>> THEN <<>>
    ELSE IF Head(ws).seq.id \in cs
    THEN WithoutFirsts(Tail(ws), cs \ {Head(ws).seq.id})
    ELSE <<Head(ws)>> \o WithoutFirsts(Tail(ws), cs)

\* the round r over the worklist took the first bridge of each member of cs
TookFirsts(ws, cs, r) ==
    /\ r.y = WithoutFirsts(ws, cs)
    /\ Range(NewBridge(r.grouped_roster, cs).child_bridges)
           = {ws[MinOf(PositionsOf(ws, c))] : c \in cs}
    /\ Len(NewBridge(r.grouped_roster, cs).child_bridges) = Cardinality(cs)
    /\ NewBridge(r.grouped_roster, cs).seq = CombinerOwner(cs)
    /\ NewBridge(r.grouped_roster, cs).past = key[1]
    /\ NewBridge(r.grouped_roster, cs).future = key[2]

\* C16, amended: a round removes from the worklist one bridge of each member
\* of the selected Combiner, the first one the worklist holds, and the
\* children of the new bridge are those removed bridges, one for each member;
\* the other bridges of a member stay in the worklist, in their order.
RoundTakesFirsts ==
    pc = "selected" => TookFirsts(y, c_out, CoverRound(grouped_roster, y, c_out, key[1], key[2]))

\* a round for a Combiner of several members is over, and a member of it has
\* another bridge in the worklist
MemberLeftOver ==
    /\ pc = "while" /\ Cardinality(c_out) >= 2
    /\ grouped_roster[c_out].bridges # <<>>
    /\ NewBridge(grouped_roster, c_out).past = key[1]
    /\ NewBridge(grouped_roster, c_out).future = key[2]
    /\ \E c \in c_out : PositionsOf(y, c) # {}

----------------------------------------------------------------------------
(* The bridges of the chains (SpecCast) *)

\* the bridges bs of the owner seq follow the chain: one for each entry and
\* the next one, numbered by the place of the entry
BridgesAlong(bs, seq, chain) ==
    /\ Len(bs) = Cardinality(DOMAIN chain \ {1})
    /\ \A i \in DOMAIN bs :
          /\ bs[i].seq = seq
          /\ bs[i].index = i
          /\ bs[i].past = chain[i].event
          /\ bs[i].future = chain[i + 1].event
          /\ bs[i].dash = (chain[i].dash_to_next \/ chain[i + 1].dash_from_previous)

\* how many times the bridge b is queued in links2process
Queued(l2p, b) ==
    Cardinality(UNION {{<<i, j>> : j \in {j \in DOMAIN l2p[i].links : l2p[i].links[j] = b}} :
                       i \in DOMAIN l2p})

\* every bridge of bs is queued once
QueuedOnce(l2p, bs) == \A i \in DOMAIN bs : Queued(l2p, bs[i]) = 1

\* finalize has run and make_graph, which dashes the bridges of the Timelines
\* anew (line 791), has not
JustFinal == is_final /\ graph = <<>>

\* C17 as stated: finalize gives every Timeline, Place and Character one
\* bridge for each entry of its chain and the next one, once: the i-th bridge
\* goes from entry i to entry i + 1, has index i, and is dashed when entry i
\* dashes to the next or entry i + 1 dashes from the previous.
BridgePerEntry ==
    JustFinal =>
        /\ \A k \in DOMAIN line_list :
              /\ BridgesAlong(line_list[k].bridges, LineOwner(Story, k), line_list[k].e_lst)
              /\ QueuedOnce(links2process, line_list[k].bridges)
        /\ \A c \in DOMAIN characters :
              /\ BridgesAlong(characters[c].bridges, CharOwner(c), characters[c].e_lst)
              /\ QueuedOnce(links2process, characters[c].bridges)

\* the entries of a Timeline whose time box takes arrows
Boxes(k) == SelectSeq(line_list[k].e_lst, LAMBDA en : ~skip_arrow(Story, en.event))

\* the chain the bridges of the line k are built over
Bridged(k) ==
    IF line_list[k].kind = "Timeline" /\ Boxes(k) # <<>> THEN Boxes(k) ELSE line_list[k].e_lst

\* the itineraries of a CHARACTER row with dash markers
DashedItineraries ==
    UNION {[1..n -> [event : {"e1", "e2"}, dash_previous : BOOLEAN, dash_next : BOOLEAN]] :
              n \in 2..MaxLen}

\* the Character c of the story s has the bridges of its itinerary
CharacterBridged(s, c) ==
    BridgesAlong(s.characters[c].bridges, CharOwner(c), s.characters[c].e_lst)

\* C17, amended: finalize gives every Place and every Character of the
\* roster of the story one bridge for each entry of its chain and the next
\* one, once, and every Timeline one for each entry of its chain without the
\* anchors whose events all skip the time box (of the whole chain when no
\* other anchor is left); the i-th bridge goes from entry i to entry i + 1 of
\* that chain, has index i, and is dashed when entry i dashes to the next or
\* entry i + 1 dashes from the previous.  A Character that is not in the
\* roster has no bridge.
BridgePerShownEntry ==
    /\ JustFinal =>
          /\ \A k \in DOMAIN line_list :
                /\ BridgesAlong(line_list[k].bridges, LineOwner(Story, k), Bridged(k))
                /\ QueuedOnce(links2process, line_list[k].bridges)
          /\ \A c \in roster(Story) :
                /\ CharacterBridged(Story, c)
                /\ QueuedOnce(links2process, characters[c].bridges)
          /\ \A c \in DOMAIN characters \ roster(Story) : characters[c].bridges = <<>>
    /\ Loading /\ characters = <<>> =>
          \A toks \in DashedItineraries :
              \A s \in finalize(create_character(Story, [name |-> "bob", starred |-> FALSE], toks)) :
                  CharacterBridged(s, 1)

\* a final story with a Timeline that has an anchor without arrows, a
\* Character of the roster with two bridges, and a Character out of the roster
BridgedPastTheBox ==
    /\ JustFinal
    /\ \E k \in DOMAIN line_list : Len(line_list[k].bridges) < Len(line_list[k].e_lst) - 1
    /\ \E c \in roster(Story) : Len(characters[c].bridges) = 2
    /\ DOMAIN characters \ roster(Story) # {}

----------------------------------------------------------------------------
(* The indices of the Combiner bridges (SpecCover) *)

\* the index the Character c gave its bridge among the children of b
IndexGivenBy(b, c) ==
    LET j == CHOOSE j \in DOMAIN b.child_bridges : b.child_bridges[j].seq = CharOwner(c)
    IN b.child_bridges[j].index

\* the members of cs with the most events in their itinerary
MostEvents(cs) ==
    {c \in cs : \A d \in cs : Len(characters[d].e_lst) <= Len(characters[c].e_lst)}

\* the bridges bs of a Combiner are numbered 1..k in the order of the indices
\* that the Character c gave its own bridges
NumberedAfter(bs, c) ==
    /\ {bs[i].index : i \in DOMAIN bs} = 1..Len(bs)
    /\ \A i, j \in DOMAIN bs :
          bs[i].index < bs[j].index <=> IndexGivenBy(bs[i], c) < IndexGivenBy(bs[j], c)

\* C18: after finalize the k bridges of a Combiner of two or more members have
\* the indices 1..k, each once, in the increasing order of the index that the
\* index character -- a member with the most events in its itinerary -- gave
\* its own child bridge; a bridge of a singleton Combiner has the index of
\* its one child.
CombinerBridgesNumbered ==
    is_final =>
        \A cs \in DOMAIN grouped_roster :
            /\ \A i \in DOMAIN grouped_roster[cs].bridges :
                  \E n \in DOMAIN bridges : bridges[n] = grouped_roster[cs].bridges[i]
            /\ IF Cardinality(cs) = 1
               THEN \A i \in DOMAIN grouped_roster[cs].bridges :
                       /\ Len(grouped_roster[cs].bridges[i].child_bridges) = 1
                       /\ grouped_roster[cs].bridges[i].index
                              = grouped_roster[cs].bridges[i].child_bridges[1].index
               ELSE \E c \in MostEvents(cs) : NumberedAfter(grouped_roster[cs].bridges, c)

\* a final story where a Combiner of several members has three bridges that
\* are not numbered in the order they were made in
NumberedOutOfPlace ==
    /\ is_final
    /\ \E cs \in DOMAIN grouped_roster :
          /\ Cardinality(cs) >= 2
          /\ Len(grouped_roster[cs].bridges) = 3
          /\ \E i \in 1..3 : grouped_roster[cs].bridges[i].index # i

----------------------------------------------------------------------------
(* The priorities of the Combiners (SpecCast) *)

\* the member sets of the Combiners declared by COMBINER rows
Declared == {cs \in DOMAIN grouped_roster : Cardinality(cs) >= 2}

\* the Combiner every Character gets has priority 0
ImplicitUnranked ==
    \A cs \in DOMAIN grouped_roster \ Declared : grouped_roster[cs].priority = 0

\* C19 as stated: every implicit Combiner has priority 0, and the j-th
\* Combiner declared by a COMBINER row has priority j, whatever rows precede it.
PriorityIsOrdinal ==
    /\ ImplicitUnranked
    /\ {grouped_roster[cs].priority : cs \in Declared} = 1..Cardinality(Declared)

\* C19, amended: every implicit Combiner has priority 0, and a Combiner
\* declared by a COMBINER row has the number of its row as priority, where
\* load_file numbers from 1 all the rows it hands to a loader -- the rows of
\* its members and of the events before it as well.
PriorityIsRow ==
    /\ [](/\ ImplicitUnranked
          /\ \A cs \in Declared :
                /\ grouped_roster[cs].priority > Cardinality(cs)
                /\ grouped_roster[cs].priority <= l)
    /\ [][LoadCharacter => l' = l + 1]_vars
    /\ [][LoadCombiner /\ err' = NoErr =>
             /\ l' = l + 1
             /\ \E cs \in DOMAIN grouped_roster' \ DOMAIN grouped_roster :
                   /\ Cardinality(cs) >= 2
                   /\ grouped_roster'[cs].priority = l']_vars

\* the first COMBINER row of the file was loaded, after the rows of two
\* events and of its members
FirstCombinerRanked ==
    /\ err = NoErr
    /\ Cardinality(Declared) = 1
    /\ \A cs \in Declared : grouped_roster[cs].priority = l /\ l > 1

----------------------------------------------------------------------------
(* The meetings of two Characters (SpecCast) *)

\* how many times the itinerary of the Character c has the event e
Visits(c, e) ==
    Cardinality({i \in DOMAIN characters[c].e_lst : characters[c].e_lst[i].event = e})

\* the events of the itinerary of a, each once
Visited(a) == {characters[a].e_lst[i].event : i \in DOMAIN characters[a].e_lst}

\* how often a meets c at e: c itself does not count as a meeting of c
MeetingsAt(a, c, e) == Visits(c, e) - (IF c = a THEN 1 ELSE 0)

\* the pair sn is the total of the meetings of a with c and the number of
\* events where they meet
Meetings(a, c, sn) ==
    /\ sn[1] = SumOf([e \in Visited(a) |-> MeetingsAt(a, c, e)])
    /\ sn[2] = Cardinality({e \in Visited(a) : MeetingsAt(a, c, e) > 0})
    /\ sn[2] = Cardinality(shared_events(Story, a, c))
    /\ sn[1] >= 0 /\ sn[2] >= 0

\* C20: a.count_meetings(c) is the pair (S, N) where S is the sum, over the
\* distinct events of the itinerary of a, of the number of times c attends the
\* event, less 1 for each event when c is a, and N is the number of those
\* events where that value is positive; N is the size of a.shared_events(c),
\* and neither is negative.
MeetingsCounted ==
    \A a, c \in DOMAIN characters : Meetings(a, c, count_meetings(Story, a, c))

\* a Character that comes to an event twice, where it meets another one who
\* is there once
MetTwice ==
    /\ err = NoErr
    /\ \E a, c \in DOMAIN characters :
          /\ a # c
          /\ count_meetings(Story, a, c) = <<2, 1>>
          /\ count_meetings(Story, c, a) = <<1, 1>>
          /\ count_meetings(Story, c, c) = <<1, 1>>

----------------------------------------------------------------------------
(* The weights of the bridges (SpecCrowd) *)

\* the bridges of Storyboard.bridges that a sequence of the kind owns
OwnedBy(kind) == {n \in DOMAIN bridges : bridges[n].seq.kind = kind}

\* C21 as stated: in every list of bridges that finalize produces, a bridge
\* of a Timeline weighs more than a bridge of a Place, which weighs more than
\* a bridge of a Combiner, whatever the number of its children, dashed or not.
WeightsRanked ==
    is_final =>
        /\ \A n \in OwnedBy("Timeline"), m \in OwnedBy("Place") :
              weight(bridges[n]) > weight(bridges[m])
        /\ \A n \in OwnedBy("Place"), m \in OwnedBy("Combiner") :
              weight(bridges[n]) > weight(bridges[m])

\* the weight w is that of a bridge of a Combiner with n children
CombinerWeight(w, n, dashed) ==
    IF dashed
    THEN 9 * w - 4 <= 10 * n + 7 /\ 10 * n + 7 <= 9 * w + 4
    ELSE w = 10 * n + 7

\* C21, amended: in every list of bridges that finalize produces, a bridge of
\* a Timeline weighs 123 and a bridge of a Place 69; a bridge of a Combiner
\* with n children weighs 10 n + 7, and a ninth of that, rounded, when one of
\* its children is dashed.  It weighs less than a bridge of a Place when it
\* has 6 children at most (60 when dashed) and less than a bridge of a Timeline
\* when it has 11 at most; with 7 children and no dash it weighs 77.
WeightsByChildren ==
    is_final =>
        /\ \A n \in OwnedBy("Timeline") : weight(bridges[n]) = 123
        /\ \A n \in OwnedBy("Place") : weight(bridges[n]) = 69
        /\ \A n \in OwnedBy("Combiner") :
              /\ CombinerWeight(weight(bridges[n]), Len(bridges[n].child_bridges),
                                \E j \in DOMAIN bridges[n].child_bridges :
                                    bridges[n].child_bridges[j].dash)
              /\ (\/ Len(bridges[n].child_bridges) <= 6
                  \/ /\ Len(bridges[n].child_bridges) <= 60
                     /\ \E j \in DOMAIN bridges[n].child_bridges :
                           bridges[n].child_bridges[j].dash)
                 => weight(bridges[n]) < 69
              /\ Len(bridges[n].child_bridges) <= 11 => weight(bridges[n]) < 123
        /\ \A i \in DOMAIN graph :
              \E n \in DOMAIN bridges :
                  /\ graph[i].seq = bridges[n].seq /\ graph[i].index = bridges[n].index
                  /\ graph[i].weight = weight(bridges[n])

\* a drawn story where a bridge of a Combiner with 7 children outweighs the
\* bridges of the Places, and a dashed one with as many does not
CrowdOutweighsPlace ==
    /\ is_final /\ graph # <<>>
    /\ \E n \in OwnedBy("Combiner") :
          /\ Len(bridges[n].child_bridges) = 7
          /\ weight(bridges[n]) = 77
    /\ \E n \in OwnedBy("Combiner") :
          /\ Len(bridges[n].child_bridges) = 7
          /\ weight(bridges[n]) = 9

----------------------------------------------------------------------------------------------------------------------------------------
(* Anchors, their child Events and the attendance (SpecLines, SpecCast) *)

\* the Events of the registry: the entries that are not an EventAnchor
LeafEvents(s) == {e \in DOMAIN s.event_list : s.event_list[e].kind = "Event"}

\* the EventAnchors of the registry
Anchors(s) == {a \in DOMAIN s.event_list : s.event_list[a].kind = "EventAnchor"}

\* the anchors that have the Event e in child_events
AnchorsOf(s, e) == {a \in Anchors(s) : e \in s.event_list[a].child_events}

\* the anchor counts a Character as often as its child Events together
AttendanceSummed(s) ==
    \A a \in Anchors(s), c \in DOMAIN s.characters :
        Count(s.event_list[a].attendees, c)
            = SumOf([e \in s.event_list[a].child_events |->
                        Count(s.event_list[e].attendees, c)])

\* the Event e is a child of one anchor, the one it names, on the Timeline
\* of its Place and at its absolute time
AnchoredOnce(s, e) ==
    /\ Cardinality(AnchorsOf(s, e)) = 1
    /\ \A a \in AnchorsOf(s, e) :
          /\ s.event_list[e].anchor = a
          /\ s.event_list[a].line = s.line_list[s.event_list[e].line].timeline
          /\ counter(s, s.event_list[a]) = counter(s, s.event_list[e])

\* the itineraries hold Events that can be attended
ItinerariesAttendable(s) ==
    \A c \in DOMAIN s.characters : \A i \in DOMAIN s.characters[c].e_lst :
        /\ s.characters[c].e_lst[i].event \in LeafEvents(s)
        /\ can_attend(s.event_list[s.characters[c].e_lst[i].event])

\* the three statements of C22 about the story s
AttendanceHolds(s) ==
    /\ AttendanceSummed(s)
    /\ \A e \in LeafEvents(s) : AnchoredOnce(s, e)
    /\ ItinerariesAttendable(s)

\* C22: in every reachable state an EventAnchor counts each Character as
\* often as its child Events together, every Event is in the child set of
\* exactly one anchor, which is on the Timeline of the Event and has its
\* absolute time, and every entry of an itinerary is an Event that can be
\* attended (no anchor, opener or closer).
AttendanceByAnchor == AttendanceHolds(Story)

\* the statement of C22 wherever no constructor of an Event has raised
AttendanceByAnchorLoaded == err \notin {"DuplicateEvent", "AttributeError"} => AttendanceHolds(Story)

\* the statement of C22 after a CHARACTER row over the events of the story
\* loaded so far, and after a second row with the same itinerary
AttendanceAfterVisit ==
    Loading =>
        \A toks \in Itineraries({k \in DOMAIN event_list : can_attend(event_list[k])}) :
            /\ AttendanceHolds(create_character(Story, [name |-> "bob", starred |-> FALSE], toks))
            /\ AttendanceHolds(create_character(
                   create_character(Story, [name |-> "bob", starred |-> FALSE], toks),
                   [name |-> "carol", starred |-> FALSE], toks))

\* an Event whose automatic anchor took a name in use stays without an anchor
EventLeftAlone ==
    /\ err = "DuplicateEvent"
    /\ \E e \in LeafEvents(Story) : AnchorsOf(Story, e) = {} /\ event_list[e].anchor = ""

----------------------------------------------------------------------------
(* The symmetry of the meetings (SpecCast) *)

\* C23: for every pair of distinct Characters a and b, a.count_meetings(b)
\* equals b.count_meetings(a) in the total of the meetings and in the number
\* of shared events, also when one of them visits a shared event twice.
MeetingsSymmetric ==
    \A a, b \in DOMAIN characters :
        a # b => count_meetings(Story, a, b) = count_meetings(Story, b, a)

\* the second component alone: two Characters share the same events
SharedEventsSymmetric ==
    \A a, b \in DOMAIN characters :
        a # b => /\ shared_events(Story, a, b) = shared_events(Story, b, a)
                 /\ count_meetings(Story, a, b)[2] = count_meetings(Story, b, a)[2]

\* the total is the same for both when each comes once to every shared event
MeetingsSymmetricOnce ==
    \A a, b \in DOMAIN characters :
        (a # b /\ \A e \in shared_events(Story, a, b) : Visits(a, e) = 1 /\ Visits(b, e) = 1)
            => count_meetings(Story, a, b) = count_meetings(Story, b, a)

\* the totals of a pair: a counts the visits of b at each of its events once
MeetingsTotals ==
    \A a, b \in DOMAIN characters :
        a # b => count_meetings(Story, a, b)[1]
                    = SumOf([e \in shared_events(Story, a, b) |-> Visits(b, e)])

====
